---- MODULE Spec2Model ----
(***************************************************************************)
(* Model of the Monkey Stars bot: the account store reached through        *)
(* database.py (tables users, transactions, withdrawals, sponsors,         *)
(* user_sponsors) and the handlers of bot.py that write to it.             *)
(*                                                                         *)
(* Every call of the supabase client (.execute()) is one atomic step on    *)
(* the store.  A handler is a request that performs its store calls in     *)
(* program order; the calls still to be made are kept in req[r].todo.      *)
(* Money is counted in hundredths of a STAR (0.2 STAR = 20).               *)
(***************************************************************************)
EXTENDS Integers, Sequences, FiniteSets, TLC

VARIABLES
    users,          \* table users: user_id -> row
    transactions,   \* table transactions, in insertion order
    withdrawals,    \* table withdrawals, in insertion order
    sponsors,       \* table sponsors: the sponsor ids
    user_sponsors,  \* table user_sponsors: the pairs with is_subscribed
    now,            \* the clock
    req,            \* the requests in flight, by slot
    applied,        \* per account, the deltas handed to update_balance
                    \* since the row was written by create_user
    born,           \* per account, the length of transactions when the
                    \* row was first created
    nops, nfail,    \* counters that bound the model
    fsm             \* the dispatcher's MemoryStorage: per sender, the
                    \* state and the data of its conversation

vars == <<users, transactions, withdrawals, sponsors, user_sponsors,
          now, req, applied, born, nops, nfail, fsm>>

store == <<users, transactions, withdrawals, sponsors, user_sponsors>>

----------------------------------------------------------------------------
(* Config (config.py) *)

CLICK_REWARD == 20
CLICK_COOLDOWN == 3600
REFERRAL_REWARD_REFERRER == 300
REFERRAL_REWARD_REFEREE == 200
CLICK_REFERRAL_PERCENT == 10
WITHDRAWAL_AMOUNTS == {1500, 2500, 5000, 10000}
ACTIVE_REFERRALS_NEEDED == 3

instant_crash_chance == 600
high_multiplier_chance == 20
min_high_multiplier == 150
low_multiplier_lo == 100
low_multiplier_hi == 110
cashout_chance == 800

special_event_chance == 15
flip_win_chance == 490
flip_multiplier == 2
dice_multiplier == 3
max_high_multiplier == 500
win_multiplier == 20
slot_jackpot_multiplier == 50
jackpot_win_chance == 10
jackpot_multiplier == 100
ticket_price == 100

MIN_BETS == [flip |-> 100, crash |-> 100, slot |-> 100, dice |-> 100,
             jackpot |-> 100]

----------------------------------------------------------------------------
(* Bounds of the model *)

MaxOps == 2          \* handler runs that write to the store
MaxTicks == 2        \* advances of the clock
MaxFail == 1         \* store calls that fail
MaxInFlight == 2     \* requests in flight at once under SpecConc

T0 == 1000                      \* the clock at the start
TickLen == 1800                 \* one advance of the clock, in seconds

Ids == 1 .. 5                   \* account ids that can have a row
Actors == {1, 2}                \* accounts whose owner sends requests
Ghost == 9                      \* an id that never registers
StartArgs == {0, 1, 2, Ghost}   \* /start argument; 0 is "no argument"
Bets == {100, 500}              \* crash_play_1, crash_play_5
WithdrawInputs == {1500, 2500, 100, -500}
Players == {1}                  \* accounts whose owner uses the game menus
BetTexts == {"5", "0.5", "-5", "abc"}   \* the text of a bet message
BadBets == {50, -500}           \* crash_play_0.5, crash_play_-5
FlipChoices == {"heads"}        \* flip_heads
DiceNumbers == {4}              \* dice_4
DiceRolls == {4, 5}             \* random.randint(1, 6)
Slots == 1 .. MaxInFlight

----------------------------------------------------------------------------
(* Rows and requests *)

Op(op, u, amt, kind) == [op |-> op, u |-> u, amt |-> amt, kind |-> kind]

\* what a handler saw of the store and of its sender's conversation when
\* it was called
Snapshot == [users |-> users, ntx |-> Len(transactions),
             nwd |-> Len(withdrawals), subs |-> user_sponsors, fsm |-> fsm]

NoSnapshot == [users |-> << >>, ntx |-> 0, nwd |-> 0, subs |-> {},
               fsm |-> << >>]

\* a conversation with no state and no data (after state.clear()); asked
\* is the game whose bet prompt is on the sender's screen
NoFsm == [state |-> "", game_type |-> "", flip_choice |-> "",
          dice_number |-> 0, asked |-> ""]

\* h: the handler, uid: the sender, arg: the request's argument,
\* todo: the store calls still to make, rd and rs: the row read by
\* update_balance and update_game_stats, out: the answer to the sender,
\* failed: the store calls of the request that raised, text: the text of
\* the message for a request that is a message, res: what the game engine
\* returned for a request that plays a round, draws: the random draws of
\* an engine call made on its own
NoResult == [win |-> FALSE, amount |-> 0]

Idle == [h |-> "idle", uid |-> 0, arg |-> 0, todo |-> << >>, rd |-> 0,
         rs |-> <<0, 0, 0>>, out |-> "", failed |-> << >>, text |-> "",
         draws |-> << >>, res |-> NoResult, pre |-> NoSnapshot]

AllIdle == \A r \in Slots : req[r] = Idle

\* the request has made all its store calls and has its answer
Done(r) == req[r].h # "idle" /\ req[r].todo = << >>

Exists(u) == u \in DOMAIN users

RECURSIVE SumAmounts(_)
SumAmounts(s) == IF s = <<>> THEN 0 ELSE Head(s).amount + SumAmounts(Tail(s))

TxOfType(u, type) == SelectSeq(transactions,
                               LAMBDA t : t.user_id = u /\ t.type = type)

WdOf(u) == SelectSeq(withdrawals, LAMBDA w : w.user_id = u)

\* user_data of create_user
NewUser(referrer_id, t) ==
    [balance |-> 0, referrer_id |-> referrer_id, created_at |-> t,
     last_click |-> 0, total_wagered |-> 0, games_played |-> 0,
     games_won |-> 0]

\* the effect of .upsert(user_data, on_conflict="user_id")
Upsert(u, row) ==
    [v \in (DOMAIN users) \cup {u} |-> IF v = u THEN row ELSE users[v]]

\* the calls of update_balance followed by add_transaction
Credit(u, amt, kind) ==
    << Op("ub_read", u, amt, kind), Op("ub_write", u, amt, kind),
       Op("add_tx", u, amt, kind) >>

----------------------------------------------------------------------------
(* games.py *)

\* a crash round in which the low range wins whatever the multiplier is
play_crash_any_low(bet, r1, r2, mh, ml, r3) ==
    IF r1 < instant_crash_chance
    THEN [win |-> FALSE, amount |-> 0]
    ELSE IF r2 < high_multiplier_chance
    THEN [win |-> TRUE, amount |-> (bet * mh) \div 100]
    ELSE IF r3 < cashout_chance
    THEN [win |-> TRUE, amount |-> (bet * ml) \div 100]
    ELSE [win |-> FALSE, amount |-> 0]

\* play_crash: r1, r2, r3 are the draws of random.random() in thousandths,
\* mh and ml the draws of random.uniform in hundredths
play_crash(bet, r1, r2, mh, ml, r3) ==
    IF r1 < instant_crash_chance
    THEN [win |-> FALSE, amount |-> 0]
    ELSE IF r2 < high_multiplier_chance
    THEN [win |-> TRUE, amount |-> (bet * mh) \div 100]
    ELSE IF ml > 100 /\ r3 < cashout_chance
    THEN [win |-> TRUE, amount |-> (bet * ml) \div 100]
    ELSE [win |-> FALSE, amount |-> 0]

\* play_crash: the multiplier that the result text shows, in hundredths
play_crash_x(r1, r2, mh, ml) ==
    IF r1 < instant_crash_chance
    THEN 100
    ELSE IF r2 < high_multiplier_chance
    THEN mh
    ELSE ml

\* play_slot, line 61: the symbols of a reel; the first is the banana
symbols ==
    << "banana", "monkey", "star", "gem", "target", "money", "slot",
       "clover" >>

\* " | ".join(reels)
join(reels) == << reels[1], " | ", reels[2], " | ", reels[3] >>

\* a slot that pays every triple alike
play_slot_flat(bet, reels) ==
    IF reels[1] = reels[2] /\ reels[2] = reels[3]
    THEN [win |-> TRUE, amount |-> bet * win_multiplier,
          shown |-> join(reels)]
    ELSE [win |-> FALSE, amount |-> 0, shown |-> join(reels)]

\* play_slot: reels are the three draws of random.choice(symbols)
play_slot(bet, reels) ==
    IF reels[1] = reels[2] /\ reels[2] = reels[3]
    THEN IF reels[1] = symbols[1]
         THEN [win |-> TRUE, amount |-> bet * slot_jackpot_multiplier,
               shown |-> join(reels)]
         ELSE [win |-> TRUE, amount |-> bet * win_multiplier,
               shown |-> join(reels)]
    ELSE [win |-> FALSE, amount |-> 0, shown |-> join(reels)]

\* play_jackpot: r is the draw of random.random() in thousandths
play_jackpot(bet, r) ==
    IF r < jackpot_win_chance
    THEN [win |-> TRUE, amount |-> bet * jackpot_multiplier]
    ELSE [win |-> FALSE, amount |-> 0]

\* a coin flip that does not look at the special event
play_flip_no_special(bet, choice, r1, r2) ==
    IF r2 < flip_win_chance
    THEN [win |-> TRUE, amount |-> bet * flip_multiplier]
    ELSE [win |-> FALSE, amount |-> 0]

\* play_flip: r1, r2 are the draws of random.random() in thousandths
play_flip(bet, choice, r1, r2) ==
    IF r1 < special_event_chance
    THEN [win |-> FALSE, amount |-> 0]
    ELSE IF r2 < flip_win_chance
    THEN [win |-> TRUE, amount |-> bet * flip_multiplier]
    ELSE [win |-> FALSE, amount |-> 0]

FlipDraws ==
    [r1 : {special_event_chance - 1, special_event_chance},
     r2 : {flip_win_chance - 1, flip_win_chance}]

\* a die that also pays the face next to the chosen one
play_dice_near(bet, user_number, dice_roll) ==
    IF user_number = dice_roll \/ user_number + 1 = dice_roll
    THEN [win |-> TRUE, amount |-> bet * dice_multiplier]
    ELSE [win |-> FALSE, amount |-> 0]

\* play_dice: dice_roll is the draw of random.randint(1, 6)
play_dice(bet, user_number, dice_roll) ==
    IF user_number = dice_roll
    THEN [win |-> TRUE, amount |-> bet * dice_multiplier]
    ELSE [win |-> FALSE, amount |-> 0]

\* float(message.text), in hundredths; ok is FALSE for ValueError
float(text) ==
    CASE text = "5" -> [ok |-> TRUE, v |-> 500]
      [] text = "0.5" -> [ok |-> TRUE, v |-> 50]
      [] text = "-5" -> [ok |-> TRUE, v |-> -500]
      [] OTHER -> [ok |-> FALSE, v |-> 0]

CrashDraws ==
    [r1 : {instant_crash_chance - 1, instant_crash_chance},
     r2 : {high_multiplier_chance - 1, high_multiplier_chance},
     mh : {min_high_multiplier},
     ml : {low_multiplier_lo, low_multiplier_hi},
     r3 : {cashout_chance - 1, cashout_chance}]

----------------------------------------------------------------------------
(* database.py: reads *)

\* get_user_sponsors_status: one entry per sponsor, is_subscribed from the
\* user's row, False when there is no row
get_user_sponsors_status(u) ==
    [s \in sponsors |-> <<u, s>> \in user_sponsors]

\* check_subscriptions of bot.py
check_subscriptions(u) ==
    LET st == get_user_sponsors_status(u)
    IN  \A s \in DOMAIN st : st[s]

\* the invitees together with the invitees of the invitees
Referrals_two_levels(u) ==
    {v \in DOMAIN users :
        \/ users[v].referrer_id = u
        \/ /\ users[v].referrer_id \in DOMAIN users
           /\ users[users[v].referrer_id].referrer_id = u}

\* get_user_referrals: (total, active)
Referrals(u) == {v \in DOMAIN users : users[v].referrer_id = u}

\* a count that takes every invitee for an active one
get_user_referrals_all_active(u) ==
    << Cardinality(Referrals(u)), Cardinality(Referrals(u)) >>

get_user_referrals(u) ==
    LET st(v) == get_user_sponsors_status(v)
    IN  << Cardinality(Referrals(u)),
           Cardinality({v \in Referrals(u) : \E s \in DOMAIN st(v) : st(v)[s]}) >>

----------------------------------------------------------------------------
(* The initial store: either empty, or the store after                     *)
(*   1 registered, 3, 4 and 5 registered with 1's link, everybody          *)
(*   confirmed the subscription to sponsor 1, and 1 won a crash round      *)
(*   of bet 5.00 at x3.00.                                                 *)

RichUsers ==
    [v \in {1, 3, 4, 5} |->
        IF v = 1
        THEN [balance |-> 3 * REFERRAL_REWARD_REFERRER + 1000,
              referrer_id |-> 0, created_at |-> T0, last_click |-> 0,
              total_wagered |-> 500, games_played |-> 1, games_won |-> 1]
        ELSE [balance |-> REFERRAL_REWARD_REFEREE,
              referrer_id |-> 1, created_at |-> T0, last_click |-> 0,
              total_wagered |-> 0, games_played |-> 0, games_won |-> 0]]

Tx(u, amt, type) == [user_id |-> u, amount |-> amt, type |-> type]

RichTransactions ==
    << Tx(1, REFERRAL_REWARD_REFERRER, "referral_bonus"),
       Tx(3, REFERRAL_REWARD_REFEREE, "referral_bonus"),
       Tx(1, REFERRAL_REWARD_REFERRER, "referral_bonus"),
       Tx(4, REFERRAL_REWARD_REFEREE, "referral_bonus"),
       Tx(1, REFERRAL_REWARD_REFERRER, "referral_bonus"),
       Tx(5, REFERRAL_REWARD_REFEREE, "referral_bonus"),
       Tx(1, 1000, "game_win") >>

InitEmpty ==
    /\ users = << >>
    /\ transactions = << >>
    /\ sponsors = {}
    /\ user_sponsors = {}
    /\ applied = [u \in Ids |-> 0]
    /\ born = [u \in Ids |-> 0]

InitRich ==
    /\ users = RichUsers
    /\ transactions = RichTransactions
    /\ sponsors = {1}
    /\ user_sponsors = {<<1, 1>>, <<3, 1>>, <<4, 1>>, <<5, 1>>}
    /\ applied = [u \in Ids |-> IF u \in DOMAIN RichUsers
                                THEN RichUsers[u].balance ELSE 0]
    /\ born = [u \in Ids |-> IF u = 4 THEN 2 ELSE IF u = 5 THEN 4 ELSE 0]

\* the populated store with no sponsor configured: the accounts have
\* registered before any sponsor was added, or the sponsor was removed and
\* the subscription rows are still there
InitSponsorless ==
    /\ users = RichUsers
    /\ transactions = RichTransactions
    /\ sponsors = {}
    /\ user_sponsors \in {{}, {<<1, 1>>, <<3, 1>>, <<4, 1>>, <<5, 1>>}}
    /\ applied = [u \in Ids |-> IF u \in DOMAIN RichUsers
                                THEN RichUsers[u].balance ELSE 0]
    /\ born = [u \in Ids |-> IF u = 4 THEN 2 ELSE IF u = 5 THEN 4 ELSE 0]

Init ==
    /\ InitEmpty \/ InitRich
    /\ withdrawals = << >>
    /\ now = T0
    /\ req = [r \in Slots |-> Idle]
    /\ nops = 0
    /\ nfail = 0
    /\ fsm = [u \in Actors |-> NoFsm]

----------------------------------------------------------------------------
(* database.py: the store calls of a request, one step each *)

NextOp(r) == Head(req[r].todo)

At(r, op) == req[r].todo # << >> /\ NextOp(r).op = op

\* the request has made its call and goes on with the calls in rest; with
\* no call left it ends with the answer out
Goto(r, rest, out) ==
    req' = [req EXCEPT ![r] = [@ EXCEPT !.todo = rest,
                                        !.out = IF rest = << >> THEN out ELSE @]]

Bump == nops' = nops + 1

\* update_balance: new_balance = user["balance"] + amount
new_balance(balance, amount) == balance + amount

\* update_balance, lines 81-83: user = self.get_user(user_id); a missing
\* row ends update_balance (return False) before its update call
UpdateBalanceGetUser(r) ==
    /\ At(r, "ub_read")
    /\ IF Exists(NextOp(r).u)
       THEN req' = [req EXCEPT ![r] = [@ EXCEPT
                        !.rd = users[NextOp(r).u].balance,
                        !.todo = Tail(@)]]
       ELSE Goto(r, Tail(Tail(req[r].todo)), "ok")
    /\ UNCHANGED <<store, now, applied, born, nops, nfail, fsm>>

\* update_balance, lines 85-90: the update of the balance column with the
\* value computed from the row read before
UpdateBalanceUpdate(r) ==
    /\ At(r, "ub_write")
    /\ LET o == NextOp(r)
       IN  /\ users' = IF Exists(o.u)
                       THEN [users EXCEPT ![o.u].balance =
                                              new_balance(req[r].rd, o.amt)]
                       ELSE users
           /\ applied' = IF Exists(o.u)
                         THEN [applied EXCEPT ![o.u] = @ + o.amt]
                         ELSE applied
    /\ Goto(r, Tail(req[r].todo), "ok")
    /\ UNCHANGED <<transactions, withdrawals, sponsors, user_sponsors, now,
                   born, nops, nfail, fsm>>

\* an add_transaction that writes over the last row of the table
AddTransaction_overwrite(r) ==
    /\ At(r, "add_tx")
    /\ transactions' =
          IF transactions = << >>
          THEN << Tx(NextOp(r).u, NextOp(r).amt, NextOp(r).kind) >>
          ELSE [transactions EXCEPT ![Len(transactions)] =
                    Tx(NextOp(r).u, NextOp(r).amt, NextOp(r).kind)]
    /\ Goto(r, Tail(req[r].todo), "ok")
    /\ UNCHANGED <<users, withdrawals, sponsors, user_sponsors, now, applied,
                   born, nops, nfail, fsm>>

\* add_transaction: one row inserted into transactions
AddTransaction(r) ==
    /\ At(r, "add_tx")
    /\ transactions' = Append(transactions,
                              Tx(NextOp(r).u, NextOp(r).amt, NextOp(r).kind))
    /\ Goto(r, Tail(req[r].todo), "ok")
    /\ UNCHANGED <<users, withdrawals, sponsors, user_sponsors, now, applied,
                   born, nops, nfail, fsm>>

\* update_last_click
UpdateLastClick(r) ==
    /\ At(r, "last_click")
    /\ users' = IF Exists(NextOp(r).u)
                THEN [users EXCEPT ![NextOp(r).u].last_click = NextOp(r).amt]
                ELSE users
    /\ Goto(r, Tail(req[r].todo), "ok")
    /\ UNCHANGED <<transactions, withdrawals, sponsors, user_sponsors, now,
                   applied, born, nops, nfail, fsm>>

\* update_game_stats, lines 110-112: user = self.get_user(user_id)
UpdateGameStatsGetUser(r) ==
    /\ At(r, "stats_read")
    /\ IF Exists(NextOp(r).u)
       THEN LET row == users[NextOp(r).u]
            IN  req' = [req EXCEPT ![r] = [@ EXCEPT
                        !.rs = <<row.total_wagered, row.games_played,
                                 row.games_won>>,
                        !.todo = Tail(@)]]
       ELSE Goto(r, Tail(Tail(req[r].todo)), "ok")
    /\ UNCHANGED <<store, now, applied, born, nops, nfail, fsm>>

\* update_game_stats, lines 114-125: the update of the statistics columns
UpdateGameStatsUpdate(r) ==
    /\ At(r, "stats_write")
    /\ LET o == NextOp(r)
           rs == req[r].rs
       IN  users' = IF Exists(o.u)
                    THEN [users EXCEPT
                            ![o.u].total_wagered = rs[1] + o.amt,
                            ![o.u].games_played = rs[2] + 1,
                            ![o.u].games_won = IF o.kind = "won"
                                               THEN rs[3] + 1 ELSE @]
                    ELSE users
    /\ Goto(r, Tail(req[r].todo), "ok")
    /\ UNCHANGED <<transactions, withdrawals, sponsors, user_sponsors, now,
                   applied, born, nops, nfail, fsm>>

\* create_user, lines 54-55: referrer = self.get_user(referrer_id); the
\* bonuses are paid only if the row exists
CreateUserGetReferrer(r) ==
    /\ At(r, "get_referrer")
    /\ Goto(r, IF Exists(NextOp(r).u) THEN Tail(req[r].todo) ELSE << >>, "ok")
    /\ UNCHANGED <<store, now, applied, born, nops, nfail, fsm>>

\* handle_withdraw, lines 842-845: the request ends when fewer than 3
\* referrals are active
enough_referrals(active_ref) == ~(active_ref < ACTIVE_REFERRALS_NEEDED)

WithdrawGetReferrals(r) ==
    /\ At(r, "get_referrals")
    /\ Goto(r, IF enough_referrals(get_user_referrals(NextOp(r).u)[2])
               THEN Tail(req[r].todo) ELSE << >>, "need_refs")
    /\ UNCHANGED <<store, now, applied, born, nops, nfail, fsm>>

\* a create_withdrawal that inserts the row as approved and approves the
\* rows already there
CreateWithdrawal_approved(r) ==
    /\ At(r, "create_wd")
    /\ withdrawals' =
          Append([i \in 1 .. Len(withdrawals) |->
                     [withdrawals[i] EXCEPT !.status = "approved"]],
                 [user_id |-> NextOp(r).u, amount |-> NextOp(r).amt,
                  status |-> "approved"])
    /\ Goto(r, Tail(req[r].todo), "ok")
    /\ UNCHANGED <<users, transactions, sponsors, user_sponsors, now, applied,
                   born, nops, nfail, fsm>>

\* create_withdrawal: one row inserted into withdrawals, status pending
CreateWithdrawal(r) ==
    /\ At(r, "create_wd")
    /\ withdrawals' = Append(withdrawals,
                             [user_id |-> NextOp(r).u, amount |-> NextOp(r).amt,
                              status |-> "pending"])
    /\ Goto(r, Tail(req[r].todo), "ok")
    /\ UNCHANGED <<users, transactions, sponsors, user_sponsors, now, applied,
                   born, nops, nfail, fsm>>

\* A store call raises: the method of database.py logs the error and
\* returns False, None, [] or (0, 0).  update_balance and
\* update_game_stats give up their update when their get_user fails;
\* create_user pays no bonus without the referrer's row; handle_withdraw
\* returns when get_user_referrals gives (0, 0) or create_withdrawal None;
\* every other caller ignores the result and goes on.
after_failure(todo) ==
    LET op == Head(todo).op
    IN  IF op \in {"ub_read", "stats_read"} THEN Tail(Tail(todo))
        ELSE IF op \in {"get_referrer", "get_referrals", "create_wd"} THEN << >>
        ELSE Tail(todo)

StoreCallFails(r) ==
    /\ req[r].todo # << >>
    /\ nfail < MaxFail
    /\ nfail' = nfail + 1
    /\ LET rest == after_failure(req[r].todo)
           out == IF NextOp(r).op = "get_referrals" THEN "need_refs"
                  ELSE IF NextOp(r).op = "create_wd" THEN "wd_failed"
                  ELSE "ok"
       IN  req' = [req EXCEPT ![r] = [@ EXCEPT
                      !.todo = rest,
                      !.out = IF rest = << >> THEN out ELSE @,
                      !.failed = Append(@, NextOp(r))]]
    /\ UNCHANGED <<store, now, applied, born, nops, fsm>>

\* the handler's last await: the answer goes to the sender
Answer(r) ==
    /\ Done(r)
    /\ req' = [req EXCEPT ![r] = Idle]
    /\ UNCHANGED <<store, now, applied, born, nops, nfail, fsm>>

----------------------------------------------------------------------------
(* bot.py: the handlers.  A handler's step is its first store call and    *)
(* the decisions taken on what it returned; req[r].todo holds the store    *)
(* calls the handler goes on to make.  A handler that returns early has    *)
(* no call to make and only its answer to send.                            *)

Begin(r, h, u, arg, calls, out) ==
    /\ req[r] = Idle
    /\ req' = [req EXCEPT ![r] = [Idle EXCEPT !.h = h, !.uid = u, !.arg = arg,
                                              !.todo = calls, !.out = out,
                                              !.pre = Snapshot]]
    /\ nops' = IF calls = << >> THEN nops ELSE nops + 1

\* a handler that plays a round begins: the engine has returned res, and
\* calls are the store calls that settle the round
BeginRound(r, h, u, bet, res, calls) ==
    /\ req[r] = Idle
    /\ req' = [req EXCEPT ![r] = [Idle EXCEPT
                  !.h = h, !.uid = u, !.arg = bet, !.res = res,
                  !.todo = calls, !.pre = Snapshot]]
    /\ nops' = nops + 1

\* the referral argument taken as it comes, the sender's own id included
start_referrer_self(u, arg) == arg

\* cmd_start, lines 102-110: the referral argument; nobody invites himself
start_referrer(u, arg) == IF arg = u THEN 0 ELSE arg

\* the two rewards handed to the wrong accounts
create_user_bonuses_swapped(u, referrer_id) ==
    IF referrer_id # 0
    THEN << Op("get_referrer", referrer_id, 0, "") >>
         \o Credit(referrer_id, REFERRAL_REWARD_REFEREE, "referral_bonus")
         \o Credit(u, REFERRAL_REWARD_REFERRER, "referral_bonus")
    ELSE << >>

\* create_user, lines 52-72: the calls after the upsert
create_user_bonuses(u, referrer_id) ==
    IF referrer_id # 0
    THEN << Op("get_referrer", referrer_id, 0, "") >>
         \o Credit(referrer_id, REFERRAL_REWARD_REFERRER, "referral_bonus")
         \o Credit(u, REFERRAL_REWARD_REFEREE, "referral_bonus")
    ELSE << >>

\* create_user, lines 36-50: the row written by the upsert
create_user_row(referrer_id, t) == NewUser(referrer_id, t)

\* cmd_start: db.create_user(user_id, username, referrer_id)
cmd_start(r, u, arg) ==
    /\ req[r] = Idle
    /\ LET referrer_id == start_referrer(u, arg)
       IN  /\ users' = Upsert(u, create_user_row(referrer_id, now))
           /\ req' = [req EXCEPT ![r] = [Idle EXCEPT
                         !.h = "start", !.uid = u, !.arg = arg,
                         !.todo = create_user_bonuses(u, referrer_id),
                         !.out = "ok", !.pre = Snapshot]]
    /\ applied' = [applied EXCEPT ![u] = 0]
    /\ born' = IF Exists(u) THEN born
               ELSE [born EXCEPT ![u] = Len(transactions)]
    /\ Bump
    /\ UNCHANGED <<transactions, withdrawals, sponsors, user_sponsors, now,
                   nfail, fsm>>

\* handle_check_subscriptions: every sponsor is marked subscribed
handle_check_subscriptions(r, u) ==
    /\ req[r] = Idle
    /\ user_sponsors' = user_sponsors \cup {<<u, s>> : s \in sponsors}
    /\ UNCHANGED <<users, transactions, withdrawals, sponsors, now, req,
                   applied, born, nops, nfail, fsm>>

\* handle_click, lines 226-233: the cooldown
in_cooldown(last_click, current_time) ==
    last_click # 0 /\ (current_time - last_click) < CLICK_COOLDOWN

\* handle_click, lines 241-251: the referrer's share of a click
referral_bonus == (CLICK_REWARD * CLICK_REFERRAL_PERCENT) \div 100

\* a rewarded click that forgets the referrer
click_calls_no_income(u, referrer_id, current_time) ==
    << Op("ub_read", u, CLICK_REWARD, "click"),
       Op("ub_write", u, CLICK_REWARD, "click"),
       Op("last_click", u, current_time, ""),
       Op("add_tx", u, CLICK_REWARD, "click") >>

\* a rewarded click that first wants the referrer's row
click_calls_needs_referrer(u, referrer_id, current_time) ==
    (IF referrer_id # 0
     THEN << Op("get_referrer", referrer_id, 0, "") >> ELSE << >>)
    \o << Op("ub_read", u, CLICK_REWARD, "click"),
          Op("ub_write", u, CLICK_REWARD, "click"),
          Op("last_click", u, current_time, ""),
          Op("add_tx", u, CLICK_REWARD, "click") >>
    \o (IF referrer_id # 0
        THEN Credit(referrer_id, referral_bonus, "referral_income")
        ELSE << >>)

\* handle_click, lines 235-251: the calls of a rewarded click
click_calls(u, referrer_id, current_time) ==
    << Op("ub_read", u, CLICK_REWARD, "click"),
       Op("ub_write", u, CLICK_REWARD, "click"),
       Op("last_click", u, current_time, ""),
       Op("add_tx", u, CLICK_REWARD, "click") >>
    \o (IF referrer_id # 0
        THEN Credit(referrer_id, referral_bonus, "referral_income")
        ELSE << >>)

\* handle_click, lines 221-251: the click of a sender that has passed
\* check_subscriptions
click_after_gate(r, u) ==
    IF ~Exists(u)
    THEN Begin(r, "click", u, 0, << >>, "no_user")
    ELSE IF in_cooldown(users[u].last_click, now)
    THEN Begin(r, "click", u, 0, << >>, "cooldown")
    ELSE Begin(r, "click", u, 0,
               click_calls(u, users[u].referrer_id, now), "")

handle_click(r, u) ==
    /\ IF ~check_subscriptions(u)
       THEN Begin(r, "click", u, 0, << >>, "not_subscribed")
       ELSE click_after_gate(r, u)
    /\ UNCHANGED <<store, now, applied, born, nfail, fsm>>

\* handle_click when a store call of get_user_sponsors_status raises:
\* get_sponsors or get_user_sponsors_status logs the error and returns [],
\* and check_subscriptions returns True for an empty list
handle_click_status_raises(r, u) ==
    /\ nfail < MaxFail
    /\ nfail' = nfail + 1
    /\ click_after_gate(r, u)
    /\ UNCHANGED <<store, now, applied, born, fsm>>

\* a settlement that credits the whole payout of a win
settle_calls_gross(u, bet, res) ==
    (IF res.win
     THEN Credit(u, res.amount, "game_win")
     ELSE Credit(u, -bet, "game_lose"))
    \o << Op("stats_read", u, bet, IF res.win THEN "won" ELSE "lost"),
          Op("stats_write", u, bet, IF res.win THEN "won" ELSE "lost") >>

\* a settlement that hands a lost bet to account 3
settle_calls_to_other(u, bet, res) ==
    (IF res.win
     THEN Credit(u, res.amount - bet, "game_win")
     ELSE Credit(u, -bet, "game_lose") \o Credit(3, bet, "game_win"))
    \o << Op("stats_read", u, bet, IF res.win THEN "won" ELSE "lost"),
          Op("stats_write", u, bet, IF res.win THEN "won" ELSE "lost") >>

\* handle_crash_play, lines 463-471: the calls that settle a round
settle_calls(u, bet, res) ==
    (IF res.win
     THEN Credit(u, res.amount - bet, "game_win")
     ELSE Credit(u, -bet, "game_lose"))
    \o << Op("stats_read", u, bet, IF res.win THEN "won" ELSE "lost"),
          Op("stats_write", u, bet, IF res.win THEN "won" ELSE "lost") >>

\* handle_crash_play, lines 455-458: the balance check
can_bet(balance, bet) == ~(balance < bet)

\* a crash round that does not look for the sender's row
handle_crash_play_no_lookup(r, u, bet, d) ==
    /\ Begin(r, "crash", u, bet,
             settle_calls(u, bet,
                 play_crash(bet, d.r1, d.r2, d.mh, d.ml, d.r3)), "")
    /\ UNCHANGED <<store, now, applied, born, nfail, fsm>>

handle_crash_play(r, u, bet, d) ==
    /\ IF ~Exists(u)
       THEN Begin(r, "crash", u, bet, << >>, "no_user")
       ELSE IF ~can_bet(users[u].balance, bet)
       THEN Begin(r, "crash", u, bet, << >>, "no_funds")
       ELSE LET res == play_crash(bet, d.r1, d.r2, d.mh, d.ml, d.r3)
            IN  BeginRound(r, "crash", u, bet, res,
                           settle_calls(u, bet, res))
    /\ UNCHANGED <<store, now, applied, born, nfail, fsm>>

\* handle_slot_play: the round is settled as a crash round is
handle_slot_play(r, u, bet, reels) ==
    /\ IF ~Exists(u)
       THEN Begin(r, "slot", u, bet, << >>, "no_user")
       ELSE IF ~can_bet(users[u].balance, bet)
       THEN Begin(r, "slot", u, bet, << >>, "no_funds")
       ELSE LET res == play_slot(bet, reels)
            IN  BeginRound(r, "slot", u, bet, res,
                           settle_calls(u, bet, res))
    /\ UNCHANGED <<store, now, applied, born, nfail, fsm>>

\* int(bet) for a bet in hundredths: the whole part, towards zero
int(bet) == IF bet < 0 THEN -((-bet) \div 100) ELSE bet \div 100

\* tickets that pay one prize however many of them win
play_tickets_one_prize(draws, i) ==
    IF \E j \in i .. Len(draws) : play_jackpot(ticket_price, draws[j]).win
    THEN [total_win |-> ticket_price * jackpot_multiplier,
          win_tickets |-> 1]
    ELSE [total_win |-> 0, win_tickets |-> 0]

\* handle_jackpot_play, lines 745-752: draws[i] is the draw of ticket i;
\* every ticket is played with play_jackpot(1.0)
RECURSIVE play_tickets(_, _)
play_tickets(draws, i) ==
    IF i > Len(draws)
    THEN [total_win |-> 0, win_tickets |-> 0]
    ELSE LET t == play_jackpot(ticket_price, draws[i])
             rest == play_tickets(draws, i + 1)
         IN  IF t.win
             THEN [total_win |-> rest.total_win + t.amount,
                   win_tickets |-> rest.win_tickets + 1]
             ELSE rest

\* handle_jackpot_play, lines 740-742 and 755-758: the tickets are paid
\* for, then the winnings are credited
jackpot_calls(u, bet, total_win) ==
    Credit(u, -bet, "game_lose")
    \o << Op("stats_read", u, bet, "lost"), Op("stats_write", u, bet, "lost") >>
    \o (IF total_win > 0
        THEN Credit(u, total_win, "game_win")
             \o << Op("stats_read", u, 0, "won"),
                   Op("stats_write", u, 0, "won") >>
        ELSE << >>)

TicketDraws(tickets) ==
    [1 .. tickets -> {jackpot_win_chance - 1, jackpot_win_chance}]

\* res.win is what the result text says: win_tickets > 0
handle_jackpot_play(r, u, bet, draws) ==
    /\ Len(draws) = int(bet)
    /\ IF ~Exists(u)
       THEN Begin(r, "jackpot", u, bet, << >>, "no_user")
       ELSE IF ~can_bet(users[u].balance, bet)
       THEN Begin(r, "jackpot", u, bet, << >>, "no_funds")
       ELSE LET t == play_tickets(draws, 1)
            IN  BeginRound(r, "jackpot", u, bet,
                           [win |-> t.win_tickets > 0,
                            amount |-> t.total_win,
                            win_tickets |-> t.win_tickets,
                            draws |-> draws],
                           jackpot_calls(u, bet, t.total_win))
    /\ UNCHANGED <<store, now, applied, born, nfail, fsm>>

\* The game menus.  Their handlers read the sender's row and write only
\* the conversation kept by the dispatcher.
MenuFrame == UNCHANGED <<store, now, req, applied, born, nops, nfail>>

\* handle_game_flip: state playing_flip, data game_type = "flip"
handle_game_flip(r, u) ==
    /\ req[r] = Idle
    /\ fsm' = IF Exists(u)
              THEN [fsm EXCEPT ![u].state = "playing_flip",
                               ![u].game_type = "flip", ![u].asked = ""]
              ELSE fsm
    /\ MenuFrame

\* handle_flip_choice: data flip_choice, state choosing_bet
handle_flip_choice(r, u, choice) ==
    /\ req[r] = Idle
    /\ fsm' = [fsm EXCEPT ![u].flip_choice = choice,
                          ![u].state = "choosing_bet", ![u].asked = "flip"]
    /\ MenuFrame

\* handle_game_crash: data game_type = "crash"
handle_game_crash(r, u) ==
    /\ req[r] = Idle
    /\ fsm' = IF Exists(u)
              THEN [fsm EXCEPT ![u].game_type = "crash", ![u].asked = ""]
              ELSE fsm
    /\ MenuFrame

\* handle_game_dice: state playing_dice
handle_game_dice(r, u) ==
    /\ req[r] = Idle
    /\ fsm' = IF Exists(u)
              THEN [fsm EXCEPT ![u].state = "playing_dice", ![u].asked = ""]
              ELSE fsm
    /\ MenuFrame

\* handle_dice_choice: data dice_number, state choosing_bet
handle_dice_choice(r, u, user_number) ==
    /\ req[r] = Idle
    /\ fsm' = [fsm EXCEPT ![u].dice_number = user_number,
                          ![u].state = "choosing_bet", ![u].asked = "dice"]
    /\ MenuFrame

\* a handler of a bet message begins: its store calls and its answer, and
\* whether it ends with state.clear() (no store call reads the
\* conversation, so the clearing is done with the handler's first step)
BeginBet(r, u, text, res, calls, out, clear) ==
    /\ req[r] = Idle
    /\ req' = [req EXCEPT ![r] = [Idle EXCEPT
                  !.h = "bet", !.uid = u, !.arg = float(text).v,
                  !.text = text, !.res = res,
                  !.todo = calls, !.out = out, !.pre = Snapshot]]
    /\ nops' = IF calls = << >> THEN nops ELSE nops + 1
    /\ fsm' = IF clear THEN [fsm EXCEPT ![u] = NoFsm] ELSE fsm
    /\ UNCHANGED <<store, now, applied, born, nfail>>

\* handle_bet_input, registered for messages in state choosing_bet
handle_bet_input(r, u, text, d) ==
    LET bet == float(text).v
    IN  IF ~Exists(u)
        THEN BeginBet(r, u, text, NoResult, << >>, "no_user", TRUE)
        ELSE IF ~float(text).ok
        THEN BeginBet(r, u, text, NoResult, << >>, "not_a_number", FALSE)
        ELSE IF bet < MIN_BETS.flip
        THEN BeginBet(r, u, text, NoResult, << >>, "min_bet", FALSE)
        ELSE IF users[u].balance < bet
        THEN BeginBet(r, u, text, NoResult, << >>, "no_funds", FALSE)
        ELSE IF fsm[u].game_type = "flip"
        THEN LET res == play_flip(bet, fsm[u].flip_choice, d.r1, d.r2)
             IN  BeginBet(r, u, text, res,
                          settle_calls(u, bet, res), "", TRUE)
        ELSE BeginBet(r, u, text, NoResult, << >>, "no_game", TRUE)

\* handle_dice_bet, registered after it for the same messages
handle_dice_bet(r, u, text, dice_roll) ==
    LET bet == float(text).v
    IN  IF ~Exists(u)
        THEN BeginBet(r, u, text, NoResult, << >>, "no_user", TRUE)
        ELSE IF ~float(text).ok
        THEN BeginBet(r, u, text, NoResult, << >>, "not_a_number", FALSE)
        ELSE IF bet < MIN_BETS.dice
        THEN BeginBet(r, u, text, NoResult, << >>, "min_bet", FALSE)
        ELSE IF users[u].balance < bet
        THEN BeginBet(r, u, text, NoResult, << >>, "no_funds", FALSE)
        ELSE LET res == play_dice(bet, fsm[u].dice_number, dice_roll)
             IN  BeginBet(r, u, text, res,
                          settle_calls(u, bet, res), "", TRUE)

\* the handlers registered with @dp.message(GameStates.choosing_bet), in
\* the order of their registration
choosing_bet_handlers == << "handle_bet_input", "handle_dice_bet" >>

\* a message of a sender in state choosing_bet: the dispatcher calls the
\* first handler registered whose filter passes, and no other
message_choosing_bet(r, u, text, d, dice_roll) ==
    /\ fsm[u].state = "choosing_bet"
    /\ IF Head(choosing_bet_handlers) = "handle_bet_input"
       THEN handle_bet_input(r, u, text, d)
       ELSE handle_dice_bet(r, u, text, dice_roll)

\* the balance check left out
has_balance_unchecked(balance, amount) == TRUE

\* handle_withdraw, lines 836-839: the balance check
has_balance(balance, amount) == ~(balance < amount)

\* handle_withdraw, lines 841-855: the calls after the balance check
withdraw_calls(u, amount) ==
    << Op("get_referrals", u, 0, ""), Op("create_wd", u, amount, "") >>
    \o Credit(u, -amount, "withdrawal")

handle_withdraw(r, u, amount) ==
    /\ IF ~Exists(u)
       THEN Begin(r, "withdraw", u, amount, << >>, "no_user")
       ELSE IF ~has_balance(users[u].balance, amount)
       THEN Begin(r, "withdraw", u, amount, << >>, "no_funds")
       ELSE Begin(r, "withdraw", u, amount, withdraw_calls(u, amount), "")
    /\ UNCHANGED <<store, now, applied, born, nfail, fsm>>

\* the clock: int(datetime.now().timestamp())
Tick ==
    /\ AllIdle
    /\ now < T0 + MaxTicks * TickLen
    /\ now' = now + TickLen
    /\ UNCHANGED <<store, req, applied, born, nops, nfail, fsm>>

----------------------------------------------------------------------------
(* Specifications *)

\* The bot alone on its store: the store calls of a handler are blocking
\* calls with no await between them, so a handler makes all its store
\* calls before the next request is taken up.  Slot 1 holds the request.
Next ==
    \/ \E u \in Actors, arg \in StartArgs :
          nops < MaxOps /\ cmd_start(1, u, arg)
    \/ \E u \in Actors : handle_check_subscriptions(1, u)
    \/ \E u \in Actors : nops < MaxOps /\ handle_click(1, u)
    \/ \E u \in Actors, bet \in Bets, d \in CrashDraws :
          nops < MaxOps /\ handle_crash_play(1, u, bet, d)
    \/ \E u \in Actors, amount \in WithdrawInputs :
          nops < MaxOps /\ handle_withdraw(1, u, amount)
    \/ UpdateBalanceGetUser(1)
    \/ UpdateBalanceUpdate(1)
    \/ AddTransaction(1)
    \/ UpdateLastClick(1)
    \/ UpdateGameStatsGetUser(1)
    \/ UpdateGameStatsUpdate(1)
    \/ CreateUserGetReferrer(1)
    \/ WithdrawGetReferrals(1)
    \/ CreateWithdrawal(1)
    \/ Answer(1)
    \/ Tick

Spec == Init /\ [][Next]_vars

\* The same bot, started on any of the three stores.
InitAnyStore ==
    /\ InitEmpty \/ InitRich \/ InitSponsorless
    /\ withdrawals = << >>
    /\ now = T0
    /\ req = [r \in Slots |-> Idle]
    /\ nops = 0
    /\ nfail = 0
    /\ fsm = [u \in Actors |-> NoFsm]

SpecAnyStore == InitAnyStore /\ [][Next]_vars

\* The same, with store calls that fail.
NextFail ==
    \/ Next
    \/ StoreCallFails(1)
    \/ \E u \in Actors : nops < MaxOps /\ handle_click_status_raises(1, u)

SpecFail == Init /\ [][NextFail]_vars

\* Registration and the clicker alone, with store calls that fail: the
\* requests that reach the referrer's credit, one at a time.
NextClickFail ==
    \/ \E u \in Actors, arg \in StartArgs :
          nops < MaxOps /\ cmd_start(1, u, arg)
    \/ \E u \in Actors : handle_check_subscriptions(1, u)
    \/ \E u \in Actors : nops < MaxOps /\ handle_click(1, u)
    \/ UpdateBalanceGetUser(1)
    \/ UpdateBalanceUpdate(1)
    \/ AddTransaction(1)
    \/ UpdateLastClick(1)
    \/ CreateUserGetReferrer(1)
    \/ StoreCallFails(1)
    \/ Answer(1)
    \/ Tick

SpecClickFail == Init /\ [][NextClickFail]_vars

\* The bot alone, with the game menus, the bet messages and the crash
\* callbacks whose bet no button offers.
NextGames ==
    \/ Next
    \/ \E u \in Players : handle_game_flip(1, u)
    \/ \E u \in Players, choice \in FlipChoices :
          handle_flip_choice(1, u, choice)
    \/ \E u \in Players : handle_game_crash(1, u)
    \/ \E u \in Players : handle_game_dice(1, u)
    \/ \E u \in Players, n \in DiceNumbers : handle_dice_choice(1, u, n)
    \/ \E u \in Players, text \in BetTexts, d \in FlipDraws,
          dice_roll \in DiceRolls :
          nops < MaxOps /\ message_choosing_bet(1, u, text, d, dice_roll)
    \/ \E u \in Players, bet \in BadBets, d \in CrashDraws :
          nops < MaxOps /\ handle_crash_play(1, u, bet, d)

SpecGames == Init /\ [][NextGames]_vars

\* Several clients of the same store (the store is a remote service and
\* no call of database.py takes a lock or opens a transaction): the store
\* calls of the requests in flight interleave.  A request takes the first
\* free slot; the clock stands still.
Free(r) == nops < MaxOps /\ \A q \in 1 .. r - 1 : req[q] # Idle

NextConc ==
    \/ \E r \in Slots, u \in Actors, arg \in StartArgs :
          Free(r) /\ cmd_start(r, u, arg)
    \/ \E r \in Slots, u \in Actors :
          Free(r) /\ handle_check_subscriptions(r, u)
    \/ \E r \in Slots, u \in Actors : Free(r) /\ handle_click(r, u)
    \/ \E r \in Slots, u \in Actors, bet \in Bets, d \in CrashDraws :
          Free(r) /\ handle_crash_play(r, u, bet, d)
    \/ \E r \in Slots, u \in Actors, amount \in WithdrawInputs :
          Free(r) /\ handle_withdraw(r, u, amount)
    \/ \E r \in Slots : UpdateBalanceGetUser(r)
    \/ \E r \in Slots : UpdateBalanceUpdate(r)
    \/ \E r \in Slots : AddTransaction(r)
    \/ \E r \in Slots : UpdateLastClick(r)
    \/ \E r \in Slots : UpdateGameStatsGetUser(r)
    \/ \E r \in Slots : UpdateGameStatsUpdate(r)
    \/ \E r \in Slots : CreateUserGetReferrer(r)
    \/ \E r \in Slots : WithdrawGetReferrals(r)
    \/ \E r \in Slots : CreateWithdrawal(r)
    \/ \E r \in Slots : Answer(r)

SpecConc == Init /\ [][NextConc]_vars

\* The games of one player, each with the store calls that settle it.
SlotBets == {100}
SlotReels ==
    { <<"banana", "banana", "banana">>, <<"star", "star", "star">>,
      <<"star", "banana", "star">> }
JackpotBets == {100, 200}

NextPlay ==
    \/ \E u \in Players : handle_game_flip(1, u)
    \/ \E u \in Players, choice \in FlipChoices :
          handle_flip_choice(1, u, choice)
    \/ \E u \in Players, d \in FlipDraws, dice_roll \in DiceNumbers :
          nops < MaxOps /\ message_choosing_bet(1, u, "5", d, dice_roll)
    \/ \E u \in Players, bet \in Bets, d \in CrashDraws :
          nops < MaxOps /\ handle_crash_play(1, u, bet, d)
    \/ \E u \in Players, bet \in SlotBets, reels \in SlotReels :
          nops < MaxOps /\ handle_slot_play(1, u, bet, reels)
    \/ \E u \in Players, bet \in JackpotBets :
          \E draws \in TicketDraws(int(bet)) :
              nops < MaxOps /\ handle_jackpot_play(1, u, bet, draws)
    \/ UpdateBalanceGetUser(1)
    \/ UpdateBalanceUpdate(1)
    \/ AddTransaction(1)
    \/ UpdateGameStatsGetUser(1)
    \/ UpdateGameStatsUpdate(1)
    \/ Answer(1)

SpecPlay == Init /\ [][NextPlay]_vars

\* The game engine on its own: one call of a GameEngine function with a
\* bet and the draws of its random source; the call is kept in slot 1 with
\* what it returned until it is answered.
EngineBets == {100, 500}
FlipSides == {"heads", "tails"}
EngineFlipDraws ==
    [r1 : {0, special_event_chance - 1, special_event_chance, 999},
     r2 : {0, flip_win_chance - 1, flip_win_chance, 999}]
EngineCrashDraws ==
    [r1 : {0, instant_crash_chance - 1, instant_crash_chance, 999},
     r2 : {0, high_multiplier_chance - 1, high_multiplier_chance, 999},
     mh : {min_high_multiplier, 300, max_high_multiplier},
     ml : {low_multiplier_lo, 105, low_multiplier_hi},
     r3 : {0, cashout_chance - 1, cashout_chance, 999}]
Reels == [1 .. 3 -> {symbols[i] : i \in 1 .. Len(symbols)}]
DieFaces == 1 .. 6
EngineJackpotDraws == {0, jackpot_win_chance - 1, jackpot_win_chance, 999}

EngineCall(f, bet, draws, text, res) ==
    /\ req[1] = Idle
    /\ req' = [req EXCEPT ![1] = [Idle EXCEPT
                  !.h = f, !.arg = bet, !.draws = draws, !.text = text,
                  !.res = res]]
    /\ UNCHANGED <<store, now, applied, born, nops, nfail, fsm>>

call_play_flip ==
    \E bet \in EngineBets, choice \in FlipSides, d \in EngineFlipDraws :
        EngineCall("play_flip", bet, <<d.r1, d.r2>>, choice,
                   play_flip(bet, choice, d.r1, d.r2))

call_play_crash ==
    \E bet \in EngineBets, d \in EngineCrashDraws :
        LET res == play_crash(bet, d.r1, d.r2, d.mh, d.ml, d.r3)
        IN  EngineCall("play_crash", bet,
                       <<d.r1, d.r2, d.mh, d.ml, d.r3>>, "",
                       [win |-> res.win, amount |-> res.amount,
                        x |-> play_crash_x(d.r1, d.r2, d.mh, d.ml)])

call_play_slot ==
    \E bet \in EngineBets, reels \in Reels :
        EngineCall("play_slot", bet, reels, "", play_slot(bet, reels))

call_play_dice ==
    \E bet \in EngineBets, user_number \in DieFaces, dice_roll \in DieFaces :
        EngineCall("play_dice", bet, <<user_number, dice_roll>>, "",
                   play_dice(bet, user_number, dice_roll))

call_play_jackpot ==
    \E r \in EngineJackpotDraws :
        EngineCall("play_jackpot", ticket_price, <<r>>, "",
                   play_jackpot(ticket_price, r))

NextEngine ==
    \/ call_play_flip
    \/ call_play_crash
    \/ call_play_slot
    \/ call_play_dice
    \/ call_play_jackpot
    \/ Answer(1)

SpecEngine == Init /\ [][NextEngine]_vars

----------------------------------------------------------------------------
(* Properties *)

SumFor(log, u) == SumAmounts(SelectSeq(log, LAMBDA t : t.user_id = u))

\* the transactions recorded after position n
Since(n) == SubSeq(transactions, n + 1, Len(transactions))

Balance(us, u) == IF u \in DOMAIN us THEN us[u].balance ELSE 0

\* C1: whenever no operation is under way, every account's balance is the
\* sum of the amounts of the transactions recorded for it since its creation.
C1_Conservation ==
    AllIdle => \A u \in DOMAIN users :
                   users[u].balance = SumFor(Since(born[u]), u)

\* C2: when the operations issued on an account have all completed, its
\* balance is the balance its row was created with plus the sum of the
\* deltas of all of them: no update is lost.
C2_NoLostUpdate ==
    AllIdle => \A u \in DOMAIN users : users[u].balance = applied[u]

\* C3: a step that takes money from an account takes no more than the
\* account holds at that moment; a larger debit changes nothing.
C3_DebitRefused ==
    [][\A u \in DOMAIN users :
          (u \in DOMAIN users' /\ users'[u].balance < users[u].balance)
              => users[u].balance - users'[u].balance <= users[u].balance]_vars

\* C4: in every step, intermediate ones included, an account's balance
\* changes by exactly the amounts of the transactions the step records for it.
C4_BalanceWithTransaction ==
    [][\A u \in Ids \cup {Ghost} :
          Balance(users', u) - Balance(users, u)
              = SumFor(transactions', u) - SumFor(transactions, u)]_vars

\* the active referrals of u in the store a handler saw
ActiveIn(pre, u) ==
    Cardinality({v \in DOMAIN pre.users :
                    /\ pre.users[v].referrer_id = u
                    /\ \E sp \in sponsors : <<v, sp>> \in pre.subs})

Untouched(pre) ==
    /\ users = pre.users
    /\ Len(transactions) = pre.ntx
    /\ Len(withdrawals) = pre.nwd

\* C5: a withdrawal request of an account with fewer than 3 active
\* referrals, or with a balance below the requested amount, changes nothing
\* in the store and is answered with a refusal.
C5_WithdrawRefused ==
    \A r \in Slots :
        LET q == req[r]
        IN  (/\ q.h = "withdraw"
             /\ q.uid \in DOMAIN q.pre.users
             /\ \/ q.pre.users[q.uid].balance < q.arg
                \/ ActiveIn(q.pre, q.uid) < 3)
            => /\ Untouched(q.pre)
               /\ Done(r) => q.out \in {"no_funds", "need_refs"}

\* a request for a positive amount the balance covers is refused for the
\* lack of active referrals
C5_Witness ==
    \E r \in Slots :
        /\ req[r].h = "withdraw" /\ Done(r) /\ req[r].out = "need_refs"
        /\ req[r].arg > 0
        /\ req[r].pre.users[req[r].uid].balance >= req[r].arg
        /\ ActiveIn(req[r].pre, req[r].uid) < 3

\* C6: when no request is under way, every account has as many Withdrawal
\* rows as withdrawal transactions, and the rows' amounts are the amounts
\* debited.
C6_RowWithDebit ==
    AllIdle => \A u \in Ids :
        /\ Len(WdOf(u)) = Len(TxOfType(u, "withdrawal"))
        /\ SumAmounts(WdOf(u)) = 0 - SumAmounts(TxOfType(u, "withdrawal"))

\* C7: every Withdrawal row has an amount of the tier set.
C7_TierAmounts ==
    \A i \in 1 .. Len(withdrawals) : withdrawals[i].amount \in WITHDRAWAL_AMOUNTS

\* C8: no step changes the referrerId of an existing account.
C8_ReferrerFixed ==
    [][\A u \in DOMAIN users :
          users'[u].referrer_id = users[u].referrer_id]_vars

\* C9: a /start of an existing account leaves its balance, totalWagered,
\* gamesPlayed, gamesWon, lastClickAt and createdAt unchanged.
C9_StartKeepsAccount ==
    [][\A u \in DOMAIN users :
          (\E r \in Slots : req[r] = Idle /\ req'[r].h = "start"
                                          /\ req'[r].uid = u)
          => /\ users'[u].balance = users[u].balance
             /\ users'[u].total_wagered = users[u].total_wagered
             /\ users'[u].games_played = users[u].games_played
             /\ users'[u].games_won = users[u].games_won
             /\ users'[u].last_click = users[u].last_click
             /\ users'[u].created_at = users[u].created_at]_vars

\* C10: when the registration of a new account B with referrer A, an
\* existing account other than B, has made its store calls, A's balance is
\* 3.00 higher, B's balance is 2.00, and the transactions recorded by it are
\* exactly a referral_bonus of +3.00 for A and one of +2.00 for B.
C10_ReferralBonuses ==
    \A r \in Slots :
        LET q == req[r]
            A == q.arg
            B == q.uid
        IN  (/\ q.h = "start" /\ Done(r)
             /\ B \notin DOMAIN q.pre.users
             /\ A # 0 /\ A # B /\ A \in DOMAIN q.pre.users)
            => /\ users[A].balance = q.pre.users[A].balance + 300
               /\ users[B].balance = 200
               /\ Since(q.pre.ntx) = << Tx(A, 300, "referral_bonus"),
                                        Tx(B, 200, "referral_bonus") >>

C10_Witness ==
    \E r \in Slots :
        /\ req[r].h = "start" /\ Done(r)
        /\ req[r].uid \notin DOMAIN req[r].pre.users
        /\ req[r].arg \in DOMAIN req[r].pre.users
        /\ req[r].pre.users[req[r].arg].balance > 0
        /\ Len(transactions) = req[r].pre.ntx + 2


\* the referee's share of the registration bonus, as recorded for u
RefereeBonuses(u) ==
    SelectSeq(transactions,
              LAMBDA t : /\ t.user_id = u /\ t.type = "referral_bonus"
                         /\ t.amount = REFERRAL_REWARD_REFEREE)

\* C11: the registration bonuses are paid at most once per referee:
\* whatever the sequence of requests, no account has more than one
\* referral_bonus transaction of the referee's amount.
C11_BonusOnce == \A u \in Ids : Len(RefereeBonuses(u)) <= 1

\* C12: a registration whose referral argument names no account creates
\* the account with balance 0, writes no transaction and stores no
\* referrer, so the account is not among that id's invitees.
C12_UnknownReferrer ==
    \A r \in Slots :
        LET q == req[r]
        IN  (/\ q.h = "start" /\ Done(r)
             /\ q.arg # 0 /\ q.arg # q.uid
             /\ q.arg \notin DOMAIN q.pre.users)
            => /\ q.uid \in DOMAIN users
               /\ users[q.uid].balance = 0
               /\ Len(transactions) = q.pre.ntx
               /\ users[q.uid].referrer_id = 0
               /\ q.uid \notin Referrals(q.arg)

\* C13: no account has its own id as referrer_id, and a /start whose
\* argument is the sender's id stores no referrer and pays no bonus.
C13_NoSelfReferral ==
    /\ \A u \in DOMAIN users : users[u].referrer_id # u
    /\ \A r \in Slots :
          LET q == req[r]
          IN  (q.h = "start" /\ q.arg = q.uid)
              => /\ q.todo = << >>
                 /\ users[q.uid].referrer_id = 0
                 /\ users[q.uid].balance = 0
                 /\ Len(transactions) = q.pre.ntx

C13_Witness ==
    \E r \in Slots :
        /\ req[r].h = "start" /\ Done(r)
        /\ req[r].arg = req[r].uid
        /\ req[r].uid \in DOMAIN users
        /\ Len(transactions) > 0


\* the request in slot r is a click that was rewarded and has made all
\* its store calls
RewardedClick(r) ==
    req[r].h = "click" /\ Done(r) /\ req[r].out = "ok"

\* the transactions of account u among those recorded after position n
SinceFor(n, u) == SelectSeq(Since(n), LAMBDA t : t.user_id = u)

\* C14: a rewarded click of an account whose referrer has a row adds
\* CLICK_REWARD to the clicker with one click transaction and
\* CLICK_REWARD * CLICK_REFERRAL_PERCENT / 100 to the referrer with
\* exactly one referral_income transaction.
C14_ClickIncome ==
    \A r \in Slots :
        LET q == req[r]
            u == q.uid
            R == q.pre.users[u].referrer_id
            income == (CLICK_REWARD * CLICK_REFERRAL_PERCENT) \div 100
        IN  (RewardedClick(r) /\ R # 0 /\ R \in DOMAIN q.pre.users)
            => /\ users[u].balance = q.pre.users[u].balance + CLICK_REWARD
               /\ users[R].balance = q.pre.users[R].balance + income
               /\ Since(q.pre.ntx) = << Tx(u, CLICK_REWARD, "click"),
                                        Tx(R, income, "referral_income") >>

C14_Witness ==
    \E r \in Slots :
        /\ RewardedClick(r)
        /\ req[r].pre.users[req[r].uid].referrer_id \in DOMAIN req[r].pre.users
        /\ Len(transactions) = req[r].pre.ntx + 2

\* the referrer's credit of the click in slot r did not go through: the
\* referrer has no row, or a store call on the referrer's account raised
\* (and no call on the clicker's account did)
IncomeCreditFailed(r) ==
    LET q == req[r]
        R == q.pre.users[q.uid].referrer_id
    IN  /\ R # 0
        /\ \/ q.failed = << >> /\ R \notin DOMAIN users
           \/ q.failed # << >> /\ \A i \in 1 .. Len(q.failed) : q.failed[i].u = R

\* C15: when the referrer's credit of a rewarded click fails, the clicker
\* still has CLICK_REWARD more, its click transaction and its last_click
\* set to the time of the click.
C15_ClickSurvives ==
    \A r \in Slots :
        LET q == req[r]
            u == q.uid
        IN  (RewardedClick(r) /\ IncomeCreditFailed(r))
            => /\ users[u].balance = q.pre.users[u].balance + CLICK_REWARD
               /\ users[u].last_click = now
               /\ SinceFor(q.pre.ntx, u) = << Tx(u, CLICK_REWARD, "click") >>

C15_Witness ==
    \E r \in Slots :
        /\ RewardedClick(r) /\ IncomeCreditFailed(r)
        /\ req[r].failed # << >>
        /\ req[r].pre.users[req[r].uid].referrer_id \in DOMAIN users


\* C16: get_user_referrals(id) is (total, active) with total the number of
\* rows whose referrer_id is id (invitees of invitees not counted) and
\* active the number of those with at least one subscription row that is
\* subscribed; so active <= total.
C16_ReferralCounts ==
    \A id \in Ids \cup {Ghost} :
        LET direct == {v \in DOMAIN users : users[v].referrer_id = id}
            active == {v \in direct : \E p \in user_sponsors : p[1] = v}
        IN  /\ get_user_referrals(id) = <<Cardinality(direct),
                                          Cardinality(active)>>
            /\ get_user_referrals(id)[2] <= get_user_referrals(id)[1]

\* account a has an invitee b who has an invitee c of its own, and a has
\* both active and inactive invitees
C16_Witness ==
    \E a \in Ids, b \in DOMAIN users, c \in DOMAIN users :
        /\ users[b].referrer_id = a
        /\ users[c].referrer_id = b /\ b # a
        /\ get_user_referrals(a)[2] > 0
        /\ get_user_referrals(a)[2] < get_user_referrals(a)[1]


\* C17: a sender who selected Dice, chose a number and then enters a valid
\* bet not above the balance gets a Dice round for that bet: one more game
\* played and either one game_win transaction of twice the bet, the
\* balance up by it and one more game won, or one game_lose transaction of
\* the bet and the balance down by it.
C17_DiceRound ==
    \A r \in Slots :
        LET q == req[r]
            u == q.uid
            bet == q.arg
            was == q.pre.users[u]
        IN  (/\ q.h = "bet" /\ Done(r)
             /\ q.pre.fsm[u].asked = "dice"
             /\ u \in DOMAIN q.pre.users
             /\ float(q.text).ok
             /\ bet >= MIN_BETS.dice /\ bet <= was.balance)
            => /\ users[u].games_played = was.games_played + 1
               /\ \/ /\ Since(q.pre.ntx) = << Tx(u, 2 * bet, "game_win") >>
                     /\ users[u].balance = was.balance + 2 * bet
                     /\ users[u].games_won = was.games_won + 1
                  \/ /\ Since(q.pre.ntx) = << Tx(u, 0 - bet, "game_lose") >>
                     /\ users[u].balance = was.balance - bet
                     /\ users[u].games_won = was.games_won

\* C18: a game request whose bet is not a number, or is below the game's
\* minimum bet (zero and negative bets included), changes no balance and
\* no statistics and appends no transaction.
C18_InvalidBetRejected ==
    \A r \in Slots :
        LET q == req[r]
        IN  /\ (q.h = "bet" /\ (~float(q.text).ok \/ q.arg < MIN_BETS.flip))
                  => Untouched(q.pre)
            /\ (q.h = "crash" /\ q.arg < MIN_BETS.crash)
                  => Untouched(q.pre)


\* C19: once a store call of a request has raised, the request writes
\* nothing more to the store: the failure ends the operation.
C19_FailureStops ==
    [][\A r \in Slots : req[r].failed # << >> => store' = store]_vars

\* C20: a click, a game request or a withdrawal of a sender that has no
\* row is answered with a refusal and makes no store call: no row is
\* created for the sender, no balance is changed and no transaction or
\* withdrawal is written.
C20_NoAccount ==
    \A r \in Slots :
        LET q == req[r]
        IN  (/\ q.h \in {"click", "crash", "bet", "withdraw"}
             /\ q.uid \notin DOMAIN q.pre.users)
            => /\ q.todo = << >>
               /\ q.out \in {"no_user", "not_subscribed"}
               /\ q.uid \notin DOMAIN users
               /\ Untouched(q.pre)

C20_Witness ==
    \E r \in Slots :
        /\ req[r].h \in {"crash", "withdraw"} /\ Done(r)
        /\ req[r].uid \notin DOMAIN users
        /\ req[r].out = "no_user"
        /\ Len(transactions) > 0

\* the request in slot r is a round of game h whose outcome the engine
\* has resolved
Resolved(r, h) ==
    req[r].h = h /\ (req[r].todo # << >> \/ req[r].out = "ok")

\* C21: the bet is debited before the outcome is resolved: a crash round
\* whose outcome is resolved has its debit of the bet among the
\* transactions of the player recorded since the round began, and the
\* payout of a win is credited by a transaction of its own after it.
C21_DebitBeforeOutcome ==
    \A r \in Slots :
        LET q == req[r]
            log == SinceFor(q.pre.ntx, q.uid)
        IN  Resolved(r, "crash")
            => /\ Len(log) >= 1
               /\ log[1].amount = -q.arg
               /\ (Done(r) /\ q.res.win)
                    => (Len(log) = 2 /\ log[2].amount = q.res.amount)

\* C22: a coin flip whose first draw is below special_event_chance is a
\* loss with payout 0 whatever the second draw and the chosen side are;
\* otherwise it is a win iff the second draw is below win_chance, paying
\* twice the bet on a win and 0 on a loss.  The chosen side changes neither
\* the win flag nor the payout.
C22_CoinFlip ==
    LET q == req[1]
        r1 == q.draws[1]
        r2 == q.draws[2]
    IN  q.h = "play_flip"
        => /\ r1 < special_event_chance
                => (~q.res.win /\ q.res.amount = 0)
           /\ ~(r1 < special_event_chance)
                => /\ q.res.win <=> r2 < flip_win_chance
                   /\ q.res.amount = IF q.res.win THEN q.arg * 2 ELSE 0
           /\ \A side \in FlipSides :
                play_flip(q.arg, side, r1, r2) = q.res

\* the special event overrides a second draw that would have won
C22_Witness ==
    /\ req[1].h = "play_flip"
    /\ req[1].draws[1] < special_event_chance
    /\ req[1].draws[2] < flip_win_chance
    /\ req[1].text = "tails"
    /\ ~req[1].res.win

\* C23: a crash round applies three checks in order.  An instant crash is
\* a loss with payout 0 and multiplier 1.00; otherwise the high branch is a
\* win at a multiplier between min_high_multiplier and 5.0 that pays
\* bet x multiplier; otherwise the multiplier comes from the low range and
\* the round is a win paying bet x multiplier only if the multiplier is
\* above 1.0 and the cash-out draw succeeds, and a loss with payout 0 in
\* every other case.  A win never pays less than the bet.
C23_CrashChecks ==
    LET q == req[1]
        r1 == q.draws[1]
        r2 == q.draws[2]
        mh == q.draws[3]
        ml == q.draws[4]
        r3 == q.draws[5]
        instant == r1 < instant_crash_chance
        high == ~instant /\ r2 < high_multiplier_chance
        low == ~instant /\ ~high
    IN  q.h = "play_crash"
        => /\ instant => (~q.res.win /\ q.res.amount = 0 /\ q.res.x = 100)
           /\ high => /\ q.res.win
                      /\ q.res.x = mh
                      /\ q.res.x >= min_high_multiplier
                      /\ q.res.x <= max_high_multiplier
                      /\ q.res.amount * 100 = q.arg * q.res.x
           /\ low => /\ q.res.x = ml
                     /\ q.res.win <=> (ml > 100 /\ r3 < cashout_chance)
                     /\ q.res.win => q.res.amount * 100 = q.arg * ml
                     /\ ~q.res.win => q.res.amount = 0
           /\ q.res.win => q.res.amount >= q.arg

\* a low multiplier of exactly 1.00 with a cash-out draw that succeeds: the
\* round is lost
C23_Witness ==
    /\ req[1].h = "play_crash"
    /\ ~(req[1].draws[1] < instant_crash_chance)
    /\ ~(req[1].draws[2] < high_multiplier_chance)
    /\ req[1].draws[4] = low_multiplier_lo
    /\ req[1].draws[5] < cashout_chance
    /\ ~req[1].res.win

\* C24: a slot round is a win iff its three symbols are equal; three
\* jackpot symbols pay 50 x bet, any other triple pays 20 x bet, any other
\* draw pays 0; and the result reports the three symbols drawn.
C24_Slot ==
    LET q == req[1]
        triple == q.draws[1] = q.draws[2] /\ q.draws[2] = q.draws[3]
    IN  q.h = "play_slot"
        => /\ q.res.win <=> triple
           /\ q.res.amount = IF ~triple THEN 0
                             ELSE IF q.draws[1] = "banana" THEN 50 * q.arg
                             ELSE 20 * q.arg
           /\ <<q.res.shown[1], q.res.shown[3], q.res.shown[5]>> = q.draws

\* the slot has stopped on three jackpot symbols
C24_Witness ==
    /\ req[1].h = "play_slot"
    /\ req[1].draws = <<"banana", "banana", "banana">>
    /\ req[1].res.win
    /\ req[1].res.amount = 50 * req[1].arg

\* C25: a dice round of the engine is a win iff the roll equals the chosen
\* number; it pays exactly 3 x bet on a win and exactly 0 on a loss.
C25_DiceEngine ==
    LET q == req[1]
    IN  q.h = "play_dice"
        => /\ q.res.win <=> q.draws[1] = q.draws[2]
           /\ q.res.amount = IF q.res.win THEN 3 * q.arg ELSE 0

\* the number was guessed
C25_Witness ==
    /\ req[1].h = "play_dice"
    /\ req[1].draws[1] = req[1].draws[2]
    /\ req[1].res.amount = 3 * req[1].arg

C27_AppendOnly ==
    [][/\ Len(transactions') >= Len(transactions)
       /\ SubSeq(transactions', 1, Len(transactions)) = transactions]_vars

\* a request has added transactions to a log that already held some
C27_Witness ==
    \E r \in Slots :
        /\ Done(r)
        /\ req[r].pre.ntx > 0
        /\ Len(transactions) > req[r].pre.ntx
        /\ SubSeq(transactions, 1, req[r].pre.ntx) = RichTransactions

\* the accounts that the request in slot r may change: the sender, and
\* for a click the sender's referrer
MayChange(r) ==
    LET q == req[r]
    IN  IF q.h = "click" /\ q.uid \in DOMAIN users
        THEN {q.uid, users[q.uid].referrer_id}
        ELSE {q.uid}

\* C28: a store call of a game round or of a withdrawal of account X
\* leaves the row (balance, statistics, referrer) and the transactions of
\* every other account as they were; a store call of a click of X changes
\* only X and X's referrer.
C28_OtherAccounts ==
    [][\A r \in Slots :
          (/\ req[r].h \in {"crash", "withdraw", "click"}
           /\ req[r].todo # << >>
           /\ req'[r].todo # req[r].todo)
          => /\ DOMAIN users' = DOMAIN users
             /\ \A v \in DOMAIN users \ MayChange(r) : users'[v] = users[v]
             /\ \A i \in Len(transactions) + 1 .. Len(transactions') :
                    transactions'[i].user_id \in MayChange(r)
             /\ \A i \in Len(withdrawals) + 1 .. Len(withdrawals') :
                    withdrawals'[i].user_id \in MayChange(r)]_vars

\* a crash round has been settled in a store that holds other accounts
C28_Witness ==
    \E r \in Slots :
        /\ Resolved(r, "crash") /\ Done(r)
        /\ users[req[r].uid] # req[r].pre.users[req[r].uid]
        /\ \E v \in DOMAIN users : v # req[r].uid /\ users[v].balance > 0

\* C29: every resolved game round, a jackpot purchase that wins
\* included, adds exactly 1 to the games played by the account and
\* exactly the bet to its total wagered, and adds 1 to its games won iff
\* the round is a win.
C29_GameStats ==
    \A r \in Slots :
        LET q == req[r]
            u == q.uid
            before == q.pre.users[u]
        IN  (/\ \/ Resolved(r, "crash") \/ Resolved(r, "slot")
                \/ Resolved(r, "jackpot") \/ Resolved(r, "bet")
             /\ Done(r))
            => /\ users[u].games_played = before.games_played + 1
               /\ users[u].total_wagered = before.total_wagered + q.arg
               /\ users[u].games_won = before.games_won
                                         + (IF q.res.win THEN 1 ELSE 0)

\* C30: a winning flip, crash or slot round changes the balance by
\* payout - bet and appends exactly one transaction, a game_win of
\* payout - bet; a losing round changes the balance by -bet and appends
\* exactly one transaction, a game_lose of -bet.
C30_NetSettlement ==
    \A r \in Slots :
        LET q == req[r]
            u == q.uid
            net == IF q.res.win THEN q.res.amount - q.arg ELSE -q.arg
            kind == IF q.res.win THEN "game_win" ELSE "game_lose"
        IN  (/\ \/ Resolved(r, "crash") \/ Resolved(r, "slot")
                \/ Resolved(r, "bet")
             /\ Done(r))
            => /\ users[u].balance = q.pre.users[u].balance + net
               /\ Since(q.pre.ntx) = << Tx(u, net, kind) >>

\* a flip that was won has been settled after a round that was lost
C30_Witness ==
    \E r \in Slots :
        /\ Resolved(r, "bet") /\ Done(r) /\ req[r].res.win
        /\ users[req[r].uid].balance
             = req[r].pre.users[req[r].uid].balance + req[r].arg
        /\ \E i \in 1 .. req[r].pre.ntx :
               transactions[i] = Tx(req[r].uid, -100, "game_lose")

\* C31: no account balance is ever negative, whatever the sequence and
\* interleaving of clicks, game rounds, withdrawals and registrations.
C31_BalanceNonNegative ==
    \A u \in DOMAIN users : users[u].balance >= 0

\* C32: a click is rewarded only if the account has no rewarded click less
\* than CLICK_COOLDOWN seconds before it: no click reward is credited to
\* an account at a time when its last rewarded click, the stored
\* last_click, is inside the cooldown window.
C32_Cooldown ==
    [][\A r \in Slots :
          (/\ req[r].h = "click"
           /\ At(r, "ub_write")
           /\ NextOp(r).kind = "click"
           /\ req'[r].todo # req[r].todo
           /\ NextOp(r).u \in DOMAIN users)
          => ~in_cooldown(users[NextOp(r).u].last_click, now)]_vars

\* C33: every recorded transaction belongs to an account that has a row;
\* in particular no referral_income transaction is written for a
\* referrer id without a row.
C33_TransactionOwner ==
    \A i \in 1 .. Len(transactions) :
        transactions[i].user_id \in DOMAIN users

\* C34: the round resolved from a bet message is of the game whose choice
\* the user made last: a coin flip is resolved only if the last choice
\* made was a side of the coin, never after the choice of a dice number,
\* and only with the side heads or tails.
C34_RoundOfLastChoice ==
    \A r \in Slots :
        LET q == req[r]
        IN  Resolved(r, "bet")
            => /\ q.pre.fsm[q.uid].asked = "flip"
               /\ q.pre.fsm[q.uid].flip_choice \in FlipSides

\* the bet message in slot r carries a valid bet: a number, not below
\* the minimum and not above the sender's balance
ValidBet(r) ==
    LET q == req[r]
    IN  /\ q.h = "bet"
        /\ q.uid \in DOMAIN q.pre.users
        /\ float(q.text).ok
        /\ ~(float(q.text).v < MIN_BETS.flip)
        /\ ~(q.pre.users[q.uid].balance < float(q.text).v)

\* C35: a bet message that is not a number, is below the minimum or is
\* above the balance leaves the conversation in choosing_bet with its
\* stored choice and changes no account state; a message with a valid bet
\* ends with the conversation state and data cleared, and a valid bet
\* entered after a game choice resolves exactly one round.
C35_BetConversation ==
    \A r \in Slots :
        LET q == req[r]
            u == q.uid
        IN  (q.h = "bet" /\ u \in DOMAIN q.pre.users)
            => /\ ~ValidBet(r)
                    => /\ fsm[u] = q.pre.fsm[u]
                       /\ fsm[u].state = "choosing_bet"
                       /\ q.todo = << >>
                       /\ Untouched(q.pre)
               /\ ValidBet(r) => fsm[u] = NoFsm
               /\ (ValidBet(r) /\ q.pre.fsm[u].asked \in {"flip", "dice"})
                    => Resolved(r, "bet")

\* the sender of the request in slot r passed the gate when the request
\* began: no sponsor is configured, or the sender is subscribed to every
\* sponsor
Subscribed(r) ==
    \A s \in sponsors : <<req[r].uid, s>> \in req[r].pre.subs

\* C36: a click is rewarded only if, at the time of the click, no sponsor
\* is configured or the clicking account is subscribed to every sponsor;
\* any other click changes no state.
C36_ClickGate ==
    \A r \in Slots :
        (req[r].h = "click" /\ ~Subscribed(r))
        => /\ req[r].todo = << >>
           /\ req[r].out # "ok"
           /\ Untouched(req[r].pre)

\* C37: while no sponsor is configured the active-referral count of every
\* account is 0, however many invitees it has; no withdrawal request
\* succeeds and no withdrawal row is created.
C37_NoSponsorNoWithdrawal ==
    sponsors = {}
    => /\ \A u \in Ids : get_user_referrals(u)[2] = 0
       /\ withdrawals = << >>
       /\ \A r \in Slots :
             req[r].h = "withdraw"
             => /\ req[r].out # "ok"
                /\ users = req[r].pre.users
                /\ Len(transactions) = req[r].pre.ntx

\* with no sponsor, the withdrawal of an account that has the balance and
\* three invitees has been refused for want of active referrals
C37_Witness ==
    \E r \in Slots :
        /\ sponsors = {}
        /\ req[r].h = "withdraw" /\ Done(r)
        /\ req[r].out = "need_refs"
        /\ Cardinality(Referrals(req[r].uid)) >= ACTIVE_REFERRALS_NEEDED
        /\ req[r].arg \in WITHDRAWAL_AMOUNTS

\* C38: every withdrawal row is created with status pending, and no step
\* changes or removes a withdrawal row that exists.
C38_WithdrawalPending ==
    [][/\ Len(withdrawals') >= Len(withdrawals)
       /\ SubSeq(withdrawals', 1, Len(withdrawals)) = withdrawals
       /\ \A i \in Len(withdrawals) + 1 .. Len(withdrawals') :
              withdrawals'[i].status = "pending"]_vars

\* a later request of the account has run over its pending withdrawal
C38_Witness ==
    \E r \in Slots :
        /\ Done(r)
        /\ req[r].pre.nwd >= 1
        /\ users # req[r].pre.users
        /\ \A i \in 1 .. Len(withdrawals) : withdrawals[i].status = "pending"

====
